---- MODULE Spec2Model ----
(***************************************************************************)
(* A model of the crossword CSP solver of generate.py (CrosswordCreator):  *)
(* node consistency, AC-3 propagation and backtracking search.             *)
(*                                                                         *)
(* The grid (crossword.py: Crossword, Variable) is not part of the source  *)
(* tree; it is modelled from the data model of the specification: a slot   *)
(* is (i, j, direction, length), the overlap of two slots is the pair of   *)
(* in-word offsets of their shared cell.                                   *)
(***************************************************************************)
EXTENDS Integers, Sequences, FiniteSets, TLC

(***************************************************************************)
(* Bounds of the explored inputs.                                          *)
(***************************************************************************)
\* The word pool is drawn from the first NumWords words of Vocabulary.
NumWords == 7
\* A word pool holds at most MaxPool words.
MaxPool == 4

(***************************************************************************)
(* Inputs: words and grid structures.                                      *)
(***************************************************************************)
\* Words are sequences of letters (python strings, indexed from 0).
Vocabulary ==
    << <<"A", "A">>, <<"A", "B">>, <<"B", "A">>, <<"B", "B">>,
       <<"A">>, <<"A", "B", "A">>, <<"B", "A", "B">>, <<"B", "B", "A">>,
       <<"A", "B", "B">>, <<"B">> >>

VocabularyWords ==
    {Vocabulary[k] : k \in 1..(IF NumWords < Len(Vocabulary) THEN NumWords ELSE Len(Vocabulary))}

WordPools == {P \in SUBSET VocabularyWords : Cardinality(P) <= MaxPool}

\* Structures as in the structure files: "_" is an open cell, "#" a block.
Structures ==
    { << <<"_", "_">> >>,
      << <<"_", "_">>,
         <<"_", "#">> >>,
      << <<"_", "_", "_">>,
         <<"#", "_", "#">> >>,
      << <<"_", "_">>,
         <<"#", "#">>,
         <<"_", "_">> >>,
      << <<"_", "_", "#">>,
         <<"#", "_", "_">> >>,
      << <<"_", "_", "#">>,
         <<"#", "_", "#">>,
         <<"#", "_", "_">> >>,
      << <<"_", "_", "#">>,
         <<"_", "#", "#">>,
         <<"#", "#", "#">>,
         <<"#", "_", "_">> >> }

\* The grids on which the consistency pre-pass alone is explored: the above and
\* a grid whose overlaps form a cycle.
PropagationStructures ==
    Structures \cup
    { << <<"_", "_">>,
         <<"_", "_">> >> }

ACROSS == "across"
DOWN == "down"

Height(s) == Len(s)
Width(s) == Len(s[1])

\* Cell (i, j), 0-based, is open.
IsOpen(s, i, j) ==
    /\ i >= 0 /\ i < Height(s)
    /\ j >= 0 /\ j < Width(s)
    /\ s[i + 1][j + 1] = "_"

\* Length of the maximal run of open cells starting at (i, j) going down / across.
RunDown(s, i, j) ==
    CHOOSE n \in 1..(Height(s) - i) :
        /\ \A k \in 0..(n - 1) : IsOpen(s, i + k, j)
        /\ ~IsOpen(s, i + n, j)

RunAcross(s, i, j) ==
    CHOOSE n \in 1..(Width(s) - j) :
        /\ \A k \in 0..(n - 1) : IsOpen(s, i, j + k)
        /\ ~IsOpen(s, i, j + n)

\* The slots of a structure: maximal runs of more than one open cell.
Variables(s) ==
    LET cells == {c \in (0..(Height(s) - 1)) \X (0..(Width(s) - 1)) : IsOpen(s, c[1], c[2])}
        down == {[i |-> c[1], j |-> c[2], direction |-> DOWN, length |-> RunDown(s, c[1], c[2])] :
                    c \in {d \in cells : ~IsOpen(s, d[1] - 1, d[2])}}
        across == {[i |-> c[1], j |-> c[2], direction |-> ACROSS, length |-> RunAcross(s, c[1], c[2])] :
                    c \in {d \in cells : ~IsOpen(s, d[1], d[2] - 1)}}
    IN  {v \in down \cup across : v.length > 1}

\* The k-th cell (0-based) of a slot.
Cell(v, k) ==
    << v.i + (IF v.direction = DOWN THEN k ELSE 0),
       v.j + (IF v.direction = ACROSS THEN k ELSE 0) >>

None == <<>>

\* The overlap of two slots: None, or <<ox, oy>> (0-based offsets of the shared cell).
SharedCell(x, y) ==
    LET common == {p \in (0..(x.length - 1)) \X (0..(y.length - 1)) : Cell(x, p[1]) = Cell(y, p[2])}
    IN  IF common = {} THEN None ELSE CHOOSE p \in common : TRUE

\* crossword.overlaps: an entry for every ordered pair of distinct slots.
Overlaps(S) == [p \in {q \in S \X S : q[1] # q[2]} |-> SharedCell(p[1], p[2])]

VARIABLES
    structure,   \* the grid structure (input)
    variables,   \* crossword.variables: the slots of the grid
    overlaps,    \* crossword.overlaps
    words,       \* crossword.words: the word pool (input)
    domains,     \* self.domains: slot -> set of words
    pc,          \* position in solve()
    arcs,        \* ac3: the worklist
    pending,     \* ac3: what is left of the list [arc, arc[::-1]] of the inner loop
    arc,         \* the (x, y) of the last revise call
    revised,     \* the result of the last revise call
    ac3ret,      \* what ac3 returned: "pending", "True" or "False"
    call,        \* a call of backtrack about to start, and its argument
    ret,         \* the value a call of backtrack has just returned
    stack,       \* the frames of the running calls of backtrack
    heap,        \* the assignment dicts alive: reference -> content
    result       \* what solve() returned

vars == << structure, variables, overlaps, words, domains, pc, arcs, pending, arc, revised,
           ac3ret, call, ret, stack, heap, result >>

Vars == variables

\* self.crossword.overlaps[x, y], for two distinct slots
Overlap(x, y) == overlaps[<< x, y >>]

\* crossword.neighbors(var)
Neighbors(v) == {n \in Vars : n # v /\ Overlap(n, v) # None}

\* The orders in which a python set may be iterated: all of them.
Orders(S) ==
    {f \in [1..Cardinality(S) -> S] : \A a, b \in 1..Cardinality(S) : f[a] = f[b] => a = b}

\* The elements of S in the order o of the slots.
InOrder(S, o) == SelectSeq(o, LAMBDA v : v \in S)

SeqToSet(q) == {q[k] : k \in 1..Len(q)}


(***************************************************************************)
(* __init__ (lines 8-16): every slot starts with a copy of the word pool.  *)
(***************************************************************************)
InitDomains(S, W) == [v \in S |-> W]

\* No slot.
NoVar == [i |-> -1, j |-> -1, direction |-> ACROSS, length |-> 0]

\* A faulty variant: without the copy of lines 13-16 every slot's domain would
\* be the one set crossword.words.
DomainObject_Shared(v) == NoVar

\* The set object that is the domain of slot v: words.copy() (line 14) makes
\* one for each slot, named here by the slot.
DomainObject(v) == v

\* self.domains[x].remove(word) for each word of words_rem (lines 142-143):
\* the removal is made in the set object, and shows in the domain of every
\* slot whose domain is that object.
Remove(doms, x, words_rem) ==
    [u \in DOMAIN doms |->
        IF DomainObject(u) = DomainObject(x) THEN doms[u] \ words_rem ELSE doms[u]]

\* No dict: references of dicts are 1, 2, ...
NoRef == 0

NoCall == [active |-> FALSE, assignment |-> NoRef]
NoRet == [kind |-> "pending", value |-> NoRef]
NoResult == [kind |-> "pending", value |-> {}]
NoArc == <<>>

InitOn(grids) ==
    /\ structure \in grids
    /\ variables = Variables(structure)
    /\ overlaps = Overlaps(Variables(structure))
    /\ words \in WordPools
    /\ domains = InitDomains(Variables(structure), words)
    /\ pc = "node"
    /\ arcs = <<>>
    /\ pending = <<>>
    /\ arc = NoArc
    /\ revised = FALSE
    /\ ac3ret = "pending"
    /\ call = NoCall
    /\ ret = NoRet
    /\ stack = <<>>
    /\ heap = <<>>
    /\ result = NoResult

Init == InitOn(Structures)

(***************************************************************************)
(* enforce_node_consistency (lines 96-110)                                 *)
(***************************************************************************)
\* A faulty variant: only the words that are too long are removed.
NodeConsistent_OnlyLonger(doms) ==
    [v \in DOMAIN doms |->
        LET words_rem == {word \in doms[v] : Len(word) > v.length}
        IN  doms[v] \ words_rem]

NodeConsistent(doms) ==
    [v \in DOMAIN doms |->
        LET words_rem == {word \in doms[v] : Len(word) # v.length}
        IN  doms[v] \ words_rem]

\* solve, line 92
EnforceNodeConsistency ==
    /\ pc = "node"
    /\ domains' = NodeConsistent(domains)
    /\ pc' = "ac3"
    /\ UNCHANGED << structure, variables, overlaps, words, heap, arcs, pending, arc, revised,
                    ac3ret, call, ret, stack, result >>

(***************************************************************************)
(* revise (lines 112-145): the new domains and the returned flag.          *)
(***************************************************************************)
\* A faulty variant: both words are read at x's offset.
Revise_SameOffset(doms, x, y) ==
    LET pos == Overlap(x, y)
    IN  IF pos = None
        THEN [domains |-> doms, revision |-> FALSE]
        ELSE LET words_rem ==
                    {x_word \in doms[x] :
                        ~\E y_word \in doms[y] : x_word[pos[1] + 1] = y_word[pos[1] + 1]}
             IN  [domains |-> Remove(doms, x, words_rem),
                  revision |-> words_rem # {}]

\* A faulty variant: a word of x is kept only if every word of y is a partner.
Revise_EveryPartner(doms, x, y) ==
    LET pos == Overlap(x, y)
    IN  IF pos = None
        THEN [domains |-> doms, revision |-> FALSE]
        ELSE LET words_rem ==
                    {x_word \in doms[x] :
                        ~\A y_word \in doms[y] : x_word[pos[1] + 1] = y_word[pos[2] + 1]}
             IN  [domains |-> Remove(doms, x, words_rem),
                  revision |-> words_rem # {}]

Revise(doms, x, y) ==
    LET pos == Overlap(x, y)
    IN  IF pos = None
        THEN [domains |-> doms, revision |-> FALSE]
        ELSE LET words_rem ==
                    {x_word \in doms[x] :
                        ~\E y_word \in doms[y] : x_word[pos[1] + 1] = y_word[pos[2] + 1]}
             IN  [domains |-> Remove(doms, x, words_rem),
                  revision |-> words_rem # {}]

(***************************************************************************)
(* ac3 (lines 147-181)                                                     *)
(***************************************************************************)
\* The loop shared by lines 160-162 and 177-179: for each n of ns (the
\* neighbors of x, each once, in the order of their iteration) append (x, n)
\* unless the arc or its reverse is in the list already.
AppendArcs(list, x, ns) ==
    LET new == SelectSeq(ns, LAMBDA n : << x, n >> \notin SeqToSet(list) /\ << n, x >> \notin SeqToSet(list))
    IN  list \o [k \in 1..Len(new) |-> << x, new[k] >>]

\* lines 156-162: the default worklist; xs is the order in which the slots are
\* iterated, ns the order in which each set of neighbors is
RECURSIVE InitialArcsFrom(_, _, _)
InitialArcsFrom(list, xs, ns) ==
    IF xs = <<>> THEN list
    ELSE InitialArcsFrom(AppendArcs(list, Head(xs), InOrder(Neighbors(Head(xs)), ns)), Tail(xs), ns)

InitialArcs(xs, ns) == InitialArcsFrom(<<>>, xs, ns)

\* A faulty variant: nothing is added when x was revised.
Requeue_Nothing(list, x, ns) == list

\* lines 176-179: the arcs added when x was revised; ns is the set of
\* neighbors of x in the order of its iteration
Requeue(list, x, ns) == AppendArcs(list, x, ns)

\* A faulty variant: the arcs of x are added whether or not x was revised.
ReviseStep_AlwaysRequeue(doms, list, x, y, ns) ==
    LET r == Revise(doms, x, y)
    IN  IF r.domains[x] = {}
        THEN [domains |-> r.domains, arcs |-> list, revised |-> r.revision, ret |-> "False"]
        ELSE [domains |-> r.domains, arcs |-> Requeue(list, x, ns), revised |-> r.revision, ret |-> "pending"]

\* A faulty variant: the arc is revised in its own order only.
BothOrders_Forward(a) == << a >>

\* line 168: [arc, arc[::-1]]
BothOrders(a) == << a, << a[2], a[1] >> >>

\* One pass of the inner loop body (lines 169-179) on the arc (x, y).
ReviseStep(doms, list, x, y, ns) ==
    LET r == Revise(doms, x, y)
    IN  IF r.domains[x] = {}
        THEN [domains |-> r.domains, arcs |-> list, revised |-> r.revision, ret |-> "False"]
        ELSE IF r.revision
        THEN [domains |-> r.domains, arcs |-> Requeue(list, x, ns), revised |-> TRUE, ret |-> "pending"]
        ELSE [domains |-> r.domains, arcs |-> list, revised |-> FALSE, ret |-> "pending"]

\* solve, line 93: ac3() is entered with arcs=None
AC3Init ==
    /\ pc = "ac3"
    /\ \E xs, ns \in Orders(Vars) : arcs' = InitialArcs(xs, ns)
    /\ pending' = <<>>
    /\ pc' = "ac3loop"
    /\ UNCHANGED << structure, variables, overlaps, words, heap, domains, arc, revised, ac3ret,
                    call, ret, stack, result >>

\* lines 164-168: pop the first arc; both orders are to be revised
AC3Pop ==
    /\ pc = "ac3loop"
    /\ pending = <<>>
    /\ arcs # <<>>
    /\ pending' = BothOrders(Head(arcs))
    /\ arcs' = Tail(arcs)
    /\ UNCHANGED << structure, variables, overlaps, words, heap, domains, pc, arc, revised, ac3ret,
                    call, ret, stack, result >>

\* lines 169-179: revise one order of the arc; an empty domain returns False
\* (solve ignores the value and goes on to line 94)
AC3Revise ==
    /\ pc = "ac3loop"
    /\ pending # <<>>
    /\ \E ns \in Orders(Neighbors(Head(pending)[1])) :
          LET x == Head(pending)[1]
              y == Head(pending)[2]
              s == ReviseStep(domains, arcs, x, y, ns)
          IN  /\ domains' = s.domains
              /\ IF s.ret = "False"
                 THEN /\ ac3ret' = "False"
                      /\ pc' = "search"
                      /\ arcs' = <<>>
                      /\ pending' = <<>>
                      /\ arc' = NoArc
                      /\ revised' = FALSE
                 ELSE /\ arcs' = s.arcs
                      /\ pending' = Tail(pending)
                      /\ arc' = << x, y >>
                      /\ revised' = s.revised
                      /\ UNCHANGED << ac3ret, pc >>
    /\ UNCHANGED << structure, variables, overlaps, words, heap, call, ret, stack, result >>

\* line 181: the worklist is empty
AC3Done ==
    /\ pc = "ac3loop"
    /\ pending = <<>>
    /\ arcs = <<>>
    /\ ac3ret' = "True"
    /\ pc' = "search"
    /\ arc' = NoArc
    /\ revised' = FALSE
    /\ UNCHANGED << structure, variables, overlaps, words, heap, domains, arcs, pending,
                    call, ret, stack, result >>

\* The consistency pre-pass of solve (lines 92-93) alone.
NextPropagation ==
    \/ EnforceNodeConsistency
    \/ AC3Init
    \/ AC3Pop
    \/ AC3Revise
    \/ AC3Done

SpecPropagation == InitOn(PropagationStructures) /\ [][NextPropagation]_vars

\* ac3 is sequential code: it always takes its next step.
FairPropagation == SpecPropagation /\ WF_vars(NextPropagation)

(***************************************************************************)
(* revise called on its own, on any two distinct slots, once the domains   *)
(* are node consistent (overlaps holds no entry for a slot and itself).    *)
(***************************************************************************)
ReviseCall(x, y) ==
    /\ pc = "ac3"
    /\ x # y
    /\ LET r == Revise(domains, x, y)
       IN  /\ domains' = r.domains
           /\ revised' = r.revision
    /\ arc' = << x, y >>
    /\ UNCHANGED << structure, variables, overlaps, words, heap, pc, arcs, pending, ac3ret, call, ret, stack, result >>

NextRevise ==
    \/ EnforceNodeConsistency
    \/ \E x, y \in Vars : ReviseCall(x, y)

SpecRevise == InitOn(PropagationStructures) /\ [][NextRevise]_vars

\* ac3 run to its end from a worklist: the final domains and the returned value.
\* (ns: the order in which the sets of neighbors are iterated)
RECURSIVE AC3Run(_, _, _, _)
AC3Run(doms, list, pend, ns) ==
    IF pend # <<>>
    THEN LET s == ReviseStep(doms, list, Head(pend)[1], Head(pend)[2],
                             InOrder(Neighbors(Head(pend)[1]), ns))
         IN  IF s.ret = "False"
             THEN [domains |-> s.domains, ret |-> "False"]
             ELSE AC3Run(s.domains, s.arcs, Tail(pend), ns)
    ELSE IF list # <<>>
    THEN AC3Run(doms, Tail(list), BothOrders(Head(list)), ns)
    ELSE [domains |-> doms, ret |-> "True"]


(***************************************************************************)
(* Assignments: a dict slot -> word, as a set of << slot, word >> pairs    *)
(* with one pair per bound slot.                                           *)
(***************************************************************************)
Keys(a) == {p[1] : p \in a}
Value(a, v) == (CHOOSE p \in a : p[1] = v)[2]
\* assignment[var] = value
Bind(a, var, value) == {p \in a : p[1] # var} \cup {<< var, value >>}

\* assignment_complete (lines 183-192)
AssignmentComplete(a) == \A v \in Vars : v \in Keys(a)

\* A faulty variant: the check for duplicates (lines 212-214) is left out.
Consistent_NoDuplicateCheck(a) ==
    \A v \in Keys(a) :
        /\ v.length = Len(Value(a, v))
        /\ \A neighbor \in Neighbors(v) :
              neighbor \in Keys(a) =>
                  LET o == Overlap(v, neighbor)
                  IN  Value(a, v)[o[1] + 1] = Value(a, neighbor)[o[2] + 1]

\* consistent (lines 194-216)
Consistent(a) ==
    \A v \in Keys(a) :
        /\ v.length = Len(Value(a, v))
        /\ \A neighbor \in Neighbors(v) :
              neighbor \in Keys(a) =>
                  LET o == Overlap(v, neighbor)
                  IN  Value(a, v)[o[1] + 1] = Value(a, neighbor)[o[2] + 1]
        /\ ~(Cardinality({u \in Keys(a) : Value(a, u) = Value(a, v)}) > 1)

\* order_domain_values (lines 218-228): the values of the domain, in the
\* arbitrary order of list(set); the search draws them one by one.
OrderDomainValues(var, a) == domains[var]

(***************************************************************************)
(* select_unassigned_variable (lines 230-264)                              *)
(***************************************************************************)
InitialMinimum == 1000000

\* A faulty variant: the slots already assigned are scanned as well.
RECURSIVE MinimumScan_AnySlot(_, _, _)
MinimumScan_AnySlot(vs, a, acc) ==
    IF vs = <<>> THEN acc
    ELSE LET var == Head(vs)
             L == Cardinality(domains[var])
         IN  IF L < acc.minimum
             THEN MinimumScan_AnySlot(Tail(vs), a, [minimum |-> L, variables |-> << var >>, bound |-> TRUE, raised |-> acc.raised])
             ELSE IF L = acc.minimum
             THEN MinimumScan_AnySlot(Tail(vs), a,
                      [acc EXCEPT !.variables = Append(acc.variables, var),
                                  !.raised = acc.raised \/ ~acc.bound])
             ELSE MinimumScan_AnySlot(Tail(vs), a, acc)

\* lines 240-249: the scan for the unassigned slots of minimal domain size.
\* bound is FALSE while the local `variables` has not been assigned.
\* vs is the order in which crossword.variables is iterated.
RECURSIVE MinimumScan(_, _, _)
MinimumScan(vs, a, acc) ==
    IF vs = <<>> THEN acc
    ELSE LET var == Head(vs)
             L == Cardinality(domains[var])
         IN  IF var \in Keys(a) THEN MinimumScan(Tail(vs), a, acc)
             ELSE IF L < acc.minimum
             THEN MinimumScan(Tail(vs), a, [minimum |-> L, variables |-> << var >>, bound |-> TRUE, raised |-> acc.raised])
             ELSE IF L = acc.minimum
             THEN MinimumScan(Tail(vs), a,
                      [acc EXCEPT !.variables = Append(acc.variables, var),
                                  !.raised = acc.raised \/ ~acc.bound])
             ELSE MinimumScan(Tail(vs), a, acc)

\* lines 255-262: the scan for the slot with the most neighbors.
\* bound is FALSE while the local `chosen` has not been assigned.
RECURSIVE DegreeScan(_, _)
DegreeScan(vs, acc) ==
    IF vs = <<>> THEN acc
    ELSE LET var == Head(vs)
             N == Cardinality(Neighbors(var))
         IN  IF N > acc.maximum
             THEN DegreeScan(Tail(vs), [maximum |-> N, chosen |-> var, bound |-> TRUE])
             ELSE DegreeScan(Tail(vs), acc)

\* The slot returned, or raised = TRUE when a local is read before it is
\* assigned (UnboundLocalError).
SelectUnassignedVariable(a, vs) ==
    LET m == MinimumScan(vs, a, [minimum |-> InitialMinimum, variables |-> <<>>, bound |-> FALSE, raised |-> FALSE])
    IN  IF m.raised \/ ~m.bound
        THEN [raised |-> TRUE, var |-> NoVar]
        ELSE IF Len(m.variables) = 1
        THEN [raised |-> FALSE, var |-> m.variables[1]]
        ELSE LET d == DegreeScan(m.variables, [maximum |-> 0, chosen |-> NoVar, bound |-> FALSE])
             IN  IF d.bound
                 THEN [raised |-> FALSE, var |-> d.chosen]
                 ELSE [raised |-> TRUE, var |-> NoVar]

(***************************************************************************)
(* The assignment dicts. A dict is an object: backtrack receives and        *)
(* returns references, and new_assignment[var] = value writes in the object *)
(* whoever else holds it. heap maps the references in use to the contents;  *)
(* an object nothing refers to any more is dropped, and a new object takes  *)
(* the first free reference.                                                *)
(***************************************************************************)
NewRef(h) ==
    CHOOSE r \in 1..(Cardinality(DOMAIN h) + 1) :
        /\ r \notin DOMAIN h
        /\ \A q \in 1..(r - 1) : q \in DOMAIN h

\* dict() (line 94): the heap with a new empty dict
NewDict(h) == [q \in DOMAIN h \cup {NewRef(h)} |-> IF q = NewRef(h) THEN {} ELSE h[q]]

\* A faulty variant: no copy is made, the dict itself is used.
CopyRef_Alias(h, r) == r

\* The reference of the dict that assignment.copy() returns (lines 285, 299).
CopyRef(h, r) == NewRef(h)

\* assignment.copy(): the heap with the copy of the dict r
Copy(h, r) ==
    LET n == CopyRef(h, r)
    IN  [q \in DOMAIN h \cup {n} |-> IF q = n THEN h[r] ELSE h[q]]

\* The references held by the frames stk, a pending call c and a returned value rt.
Refs(stk, c, rt) ==
    {stk[k].assignment : k \in 1..Len(stk)} \cup {stk[k].new_assignment : k \in 1..Len(stk)}
        \cup (IF c.active THEN {c.assignment} ELSE {})
        \cup (IF rt.kind = "assignment" THEN {rt.value} ELSE {})

\* The heap without the objects that nothing in live refers to.
Collect(h, live) == [q \in DOMAIN h \cap live |-> h[q]]

(***************************************************************************)
(* backtrack (lines 266-302), one frame per running call.                  *)
(***************************************************************************)
Top == stack[Len(stack)]
Pop == SubSeq(stack, 1, Len(stack) - 1)

\* solve, line 94: backtrack(dict()) is called whatever ac3 returned
SolveSearch ==
    /\ pc = "search"
    /\ heap' = NewDict(heap)
    /\ call' = [active |-> TRUE, assignment |-> NewRef(heap)]
    /\ pc' = "backtrack"
    /\ UNCHANGED << structure, variables, overlaps, words, domains, arcs, pending, arc, revised,
                    ac3ret, ret, stack, result >>

\* lines 275-287: a call starts: a complete assignment is returned as it is;
\* otherwise a slot is selected, the assignment is copied and the loop over
\* the slot's values begins (line 275 never applies: every caller passes a dict).
BacktrackEnter ==
    /\ pc = "backtrack"
    /\ call.active
    /\ call' = NoCall
    /\ IF AssignmentComplete(heap[call.assignment])
       THEN /\ ret' = [kind |-> "assignment", value |-> call.assignment]
            /\ UNCHANGED << stack, heap, pc, result >>
       ELSE \E vs \in Orders(Vars) :
            LET s == SelectUnassignedVariable(heap[call.assignment], vs)
            IN  IF s.raised
                THEN /\ pc' = "done"
                     /\ result' = [kind |-> "error", value |-> {}]
                     /\ UNCHANGED << stack, heap, ret >>
                ELSE /\ heap' = Copy(heap, call.assignment)
                     /\ stack' = Append(stack,
                            [assignment |-> call.assignment,
                             var |-> s.var,
                             values |-> OrderDomainValues(s.var, heap[call.assignment]),
                             new_assignment |-> CopyRef(heap, call.assignment)])
                     /\ UNCHANGED << pc, ret, result >>
    /\ UNCHANGED << structure, variables, overlaps, words, domains, arcs, pending, arc, revised, ac3ret >>

\* A faulty variant: the loop takes its values out of the slot's domain itself
\* (as it would were the list of line 228 not a copy and consumed by the loop).
BacktrackTry_DrawsFromDomain ==
    /\ pc = "backtrack"
    /\ ~call.active
    /\ ret.kind = "pending"
    /\ stack # <<>>
    /\ \E value \in Top.values :
          LET h == [heap EXCEPT ![Top.new_assignment] = Bind(@, Top.var, value)]
          IN  /\ heap' = h
              /\ domains' = [domains EXCEPT ![Top.var] = @ \ {value}]
              /\ stack' = Append(Pop, [Top EXCEPT !.values = Top.values \ {value}])
              /\ call' = IF Consistent(h[Top.new_assignment])
                         THEN [active |-> TRUE, assignment |-> Top.new_assignment]
                         ELSE NoCall
    /\ UNCHANGED << structure, variables, overlaps, words, pc, arcs, pending, arc, revised,
                    ac3ret, ret, result >>

\* lines 287-293: the next value is bound in the dict new_assignment refers
\* to; if that is consistent it is passed to a recursive call
BacktrackTry ==
    /\ pc = "backtrack"
    /\ ~call.active
    /\ ret.kind = "pending"
    /\ stack # <<>>
    /\ \E value \in Top.values :
          LET h == [heap EXCEPT ![Top.new_assignment] = Bind(@, Top.var, value)]
          IN  /\ heap' = h
              /\ stack' = Append(Pop, [Top EXCEPT !.values = Top.values \ {value}])
              /\ call' = IF Consistent(h[Top.new_assignment])
                         THEN [active |-> TRUE, assignment |-> Top.new_assignment]
                         ELSE NoCall
    /\ UNCHANGED << structure, variables, overlaps, words, domains, pc, arcs, pending, arc, revised,
                    ac3ret, ret, result >>

\* lines 293-299: the recursive call has returned into new_assignment: a dict
\* is returned at once; on None new_assignment becomes a new copy of assignment
BacktrackResume ==
    /\ pc = "backtrack"
    /\ ret.kind # "pending"
    /\ stack # <<>>
    /\ IF ret.kind = "assignment"
       THEN /\ stack' = Pop
            /\ heap' = Collect(heap, Refs(Pop, NoCall, ret))
            /\ UNCHANGED ret
       ELSE LET released == Append(Pop, [Top EXCEPT !.new_assignment = NoRef])
                h == Collect(heap, Refs(released, NoCall, NoRet))
            IN  /\ heap' = Copy(h, Top.assignment)
                /\ stack' = Append(Pop, [Top EXCEPT !.new_assignment = CopyRef(h, Top.assignment)])
                /\ ret' = NoRet
    /\ UNCHANGED << structure, variables, overlaps, words, domains, pc, arcs, pending, arc, revised,
                    ac3ret, call, result >>

\* line 302: no value is left
BacktrackFail ==
    /\ pc = "backtrack"
    /\ ~call.active
    /\ ret.kind = "pending"
    /\ stack # <<>>
    /\ Top.values = {}
    /\ stack' = Pop
    /\ heap' = Collect(heap, Refs(Pop, NoCall, NoRet))
    /\ ret' = [kind |-> "None", value |-> NoRef]
    /\ UNCHANGED << structure, variables, overlaps, words, domains, pc, arcs, pending, arc, revised,
                    ac3ret, call, result >>

\* solve, line 94: the outermost call has returned; result keeps what the
\* returned dict holds
SolveReturn ==
    /\ pc = "backtrack"
    /\ stack = <<>>
    /\ ret.kind # "pending"
    /\ result' = [kind |-> ret.kind,
                  value |-> IF ret.kind = "assignment" THEN heap[ret.value] ELSE {}]
    /\ ret' = NoRet
    /\ heap' = Collect(heap, {})
    /\ pc' = "done"
    /\ UNCHANGED << structure, variables, overlaps, words, domains, arcs, pending, arc, revised,
                    ac3ret, call, stack >>

Next ==
    \/ EnforceNodeConsistency
    \/ AC3Init
    \/ AC3Pop
    \/ AC3Revise
    \/ AC3Done
    \/ SolveSearch
    \/ BacktrackEnter
    \/ BacktrackTry
    \/ BacktrackResume
    \/ BacktrackFail
    \/ SolveReturn

Spec == Init /\ [][Next]_vars

\* solve() is sequential code: it always takes its next step.
FairSpec == Spec /\ WF_vars(Next)

TypeOK ==
    /\ pc \in {"node", "ac3", "ac3loop", "search", "backtrack", "done"}
    /\ ac3ret \in {"pending", "True", "False"}
    /\ \A v \in Vars : domains[v] \subseteq words
    /\ result.kind \in {"pending", "None", "assignment", "error"}


(***************************************************************************)
(* The constraints of the puzzle, stated on their own.                     *)
(***************************************************************************)
\* a is a set of << slot, word >> pairs binding every slot once, with every
\* word of its slot's length, equal letters at every overlap and no word used twice.
ValidSolution(a) ==
    /\ \A v \in Vars : \E p \in a : p[1] = v
    /\ \A p, q \in a : p[1] = q[1] => p[2] = q[2]
    /\ \A p \in a : p[1] \in Vars /\ Len(p[2]) = p[1].length
    /\ \A p, q \in a :
          (p[1] # q[1] /\ Overlap(p[1], q[1]) # None) =>
              p[2][Overlap(p[1], q[1])[1] + 1] = q[2][Overlap(p[1], q[1])[2] + 1]
    /\ \A p, q \in a : p[1] # q[1] => p[2] # q[2]

\* Some complete assignment of pool words meets the constraints.
SolutionExists ==
    \E f \in [Vars -> words] : ValidSolution({<< v, f[v] >> : v \in Vars})

(***************************************************************************)
(* Claims                                                                  *)
(***************************************************************************)

\* C1: whenever solve() returns an assignment (not None), the assignment binds
\* every slot, every bound word has its slot's length, the letters at every
\* overlap of two slots are equal, and no word is bound to two slots.
C1_SuccessIsValid ==
    (pc = "done" /\ result.kind = "assignment") => ValidSolution(result.value)

\* solve() has returned an assignment on a grid with crossing slots
C1_Witness ==
    /\ pc = "done"
    /\ result.kind = "assignment"
    /\ \E x, y \in Vars : x # y /\ Overlap(x, y) # None
    /\ Cardinality(result.value) >= 2

\* C2: if ac3 reports failure during solve(), backtrack is never invoked and
\* solve() returns None.
C2_FailureSkipsSearch ==
    ac3ret = "False" =>
        /\ pc # "backtrack"
        /\ ~call.active
        /\ stack = <<>>
        /\ (pc = "done" => result.kind = "None")

\* C3: solve() returns None only when no complete assignment meeting the
\* length, overlap and uniqueness constraints exists, and returns a complete
\* assignment whenever one exists.
C3_SearchIsComplete ==
    pc = "done" =>
        /\ (result.kind = "None" => ~SolutionExists)
        /\ (SolutionExists => (result.kind = "assignment" /\ AssignmentComplete(result.value)))

\* C4: after enforce_node_consistency the domain of every slot is exactly the
\* set of the words of the pool that have the slot's length.
C4_NodeConsistency ==
    pc = "ac3" => \A v \in Vars : domains[v] = {w \in words : Len(w) = v.length}

\* node consistency has removed a word from a slot and kept another
C4_Witness ==
    /\ pc = "ac3"
    /\ \E v \in Vars : domains[v] # {} /\ domains[v] # words


\* The domains as enforce_node_consistency leaves them.
LengthDomains == [v \in Vars |-> {w \in words : Len(w) = v.length}]

\* Every word of x's domain has a partner in y's domain, for every ordered
\* pair of crossing slots.
ArcConsistent(doms) ==
    \A x, y \in Vars :
        (x # y /\ Overlap(x, y) # None) =>
            \A wx \in doms[x] : \E wy \in doms[y] :
                wx[Overlap(x, y)[1] + 1] = wy[Overlap(x, y)[2] + 1]

\* C5: when ac3 (default worklist, after node consistency) returns True, for
\* every ordered pair of slots (x, y) with an overlap (ox, oy) every word wx of
\* x's domain has a word wy in y's domain with wx[ox] = wy[oy].
C5_ArcConsistentOnTrue ==
    ac3ret = "True" => ArcConsistent(domains)

\* ac3 has returned True after removing words from a slot with neighbors
C5_Witness ==
    /\ ac3ret = "True"
    /\ \E x \in Vars : Neighbors(x) # {} /\ domains[x] # LengthDomains[x]

\* C6: ac3 returns True only if no slot's domain is empty, and False if a
\* domain ends up empty: it never returns True while a domain is empty.
C6_TrueMeansNoEmptyDomain ==
    /\ ac3ret = "True" => \A v \in Vars : domains[v] # {}
    /\ (ac3ret # "pending" /\ \E v \in Vars : domains[v] = {}) => ac3ret = "False"

\* The unbound slots of minimal domain size, and those of them with the most neighbors.
MinimalUnbound(a) ==
    {v \in Vars \ Keys(a) :
        \A u \in Vars \ Keys(a) : Cardinality(domains[v]) <= Cardinality(domains[u])}

MostConstraining(a) ==
    {v \in MinimalUnbound(a) :
        \A u \in MinimalUnbound(a) : Cardinality(Neighbors(v)) >= Cardinality(Neighbors(u))}

\* C7: select_unassigned_variable, called with an assignment that leaves a slot
\* unbound, returns an unbound slot of minimal domain size and, among those,
\* one with the largest number of neighbors.
C7_SelectReturnsMRVDegree ==
    /\ result.kind # "error"
    /\ \A k \in 1..Len(stack) : stack[k].var \in MostConstraining(heap[stack[k].assignment])

\* C8: revise(x, y) leaves the domains alone and returns False when x and y do
\* not overlap; otherwise x's domain becomes the set of its words that have a
\* partner in y's domain, and the result is True exactly when x's domain changed.
C8_Revise ==
    [][pc = "ac3" =>
        LET x == arc'[1]
            y == arc'[2]
            pos == Overlap(x, y)
        IN  IF pos = None
            THEN domains' = domains /\ revised' = FALSE
            ELSE /\ domains'[x] =
                       {wx \in domains[x] : \E wy \in domains[y] : wx[pos[1] + 1] = wy[pos[2] + 1]}
                 /\ revised' = (domains'[x] # domains[x])]_vars

\* revise has removed some words of x and kept others
C8_Witness ==
    /\ pc = "ac3"
    /\ arc # NoArc
    /\ revised
    /\ domains[arc[1]] # {}

\* revise has been called on two slots that do not overlap
C8_WitnessNoOverlap ==
    /\ pc = "ac3"
    /\ arc # NoArc
    /\ Overlap(arc[1], arc[2]) = None

\* C9: running enforce_node_consistency and then ac3 again, on domains on which
\* both were enforced and ac3 returned True, changes no domain, and ac3 returns
\* True again.
C9_Idempotent ==
    (pc = "search" /\ ac3ret = "True") =>
        \A xs, ns \in Orders(Vars) :
            LET again == AC3Run(NodeConsistent(domains), InitialArcs(xs, ns), <<>>, ns)
            IN  again.ret = "True" /\ again.domains = domains

\* ac3 has returned True, having removed words, on a grid of three slots or more
C9_Witness ==
    /\ pc = "search"
    /\ ac3ret = "True"
    /\ Cardinality(Vars) >= 3
    /\ \E x \in Vars : domains[x] # LengthDomains[x] /\ domains[x] # {}

\* C10: ac3 always terminates (every run of the pre-pass reaches the return of
\* ac3, with True or False), and an arc is put back
\* on the worklist only by a step that strictly shrinks a domain.
C10_AC3Terminates ==
    /\ <>(ac3ret # "pending")
    /\ [][(pc = "ac3loop" /\ \E k \in 1..Len(arcs') : arcs'[k] \notin SeqToSet(arcs)) =>
            \E v \in Vars : domains'[v] \subseteq domains[v] /\ domains'[v] # domains[v]]_vars

\* an arc has just been put back on a worklist that held other arcs
C10_Witness ==
    /\ pc = "ac3loop"
    /\ revised
    /\ Len(arcs) >= 2

\* C11: in ac3, when revising the arc (x, y) changes x's domain, the arcs put
\* back on the worklist are those between x and every neighbor of x other than
\* y; the arc between x and y itself is not put back by that revision.
C11_RequeueExcludesRevisedArc ==
    [][(pc = "ac3loop" /\ pending # <<>> /\ pc' = "ac3loop" /\ domains' # domains) =>
        LET x == Head(pending)[1]
            y == Head(pending)[2]
            added == SeqToSet(arcs') \ SeqToSet(arcs)
        IN  /\ << x, y >> \notin added
            /\ << y, x >> \notin added
            /\ \A a \in added : a[1] = x /\ a[2] \in Neighbors(x) \ {y}
            /\ \A n \in Neighbors(x) \ {y} :
                  << x, n >> \in SeqToSet(arcs') \/ << n, x >> \in SeqToSet(arcs')]_vars

\* C12: in backtrack, the assignment tested for each candidate value is exactly
\* the caller's assignment extended by the single binding var -> value (no
\* binding of a rejected candidate or of a failed recursive branch remains in
\* it), and the assignment passed into backtrack is not modified by the call.
C12_CopyOnBranch ==
    [][pc = "backtrack" =>
        \* no step changes the dict a running or pending call has received
        \* (a dict that is dropped at the return of the call is not in heap')
        /\ \A r \in {stack[k].assignment : k \in 1..Len(stack)}
                        \cup (IF call.active THEN {call.assignment} ELSE {}) :
              r \in DOMAIN heap' => heap'[r] = heap[r]
        /\ \A k \in 1..Len(stack) :
              k <= Len(stack') =>
                  /\ stack'[k].assignment = stack[k].assignment
                  /\ stack[k].assignment \in DOMAIN heap'
        \* a step that draws a candidate value tests the received assignment
        \* with that one binding added
        /\ (Len(stack') = Len(stack) /\ stack # <<>> /\ Top.values # stack'[Len(stack')].values) =>
              \E value \in Top.values :
                  /\ Top.var \notin Keys(heap[Top.assignment])
                  /\ heap'[stack'[Len(stack')].new_assignment] =
                        heap[Top.assignment] \cup {<< Top.var, value >>}]_vars

\* a call two levels down has tested a second candidate after the first was
\* rejected or its branch failed
C12_Witness ==
    /\ pc = "backtrack"
    /\ Len(stack) >= 2
    /\ Cardinality(domains[Top.var] \ Top.values) >= 2
    /\ heap[Top.new_assignment] # heap[Top.assignment]

\* The calls of backtrack in progress: the running ones and a pending one.
CallsInProgress == Len(stack) + (IF call.active THEN 1 ELSE 0)

\* The number of slots the dict r binds.
Bound(r) == Cardinality(Keys(heap[r]))

\* C13: each recursive call of backtrack receives an assignment with exactly
\* one more bound slot than its caller's, so the depth of the recursion (the
\* calls in progress below the outermost one, which solve makes) never exceeds
\* the number of slots, and the search always terminates.
C13_BoundedRecursion ==
    /\ [](/\ \A k \in 2..Len(stack) :
                Bound(stack[k].assignment) = Bound(stack[k - 1].assignment) + 1
          /\ (call.active /\ stack # <<>>) => Bound(call.assignment) = Bound(Top.assignment) + 1
          /\ CallsInProgress - 1 <= Cardinality(Vars))
    /\ <>(pc = "done")

\* the recursion is as deep as there are slots, on a grid of three slots
C13_Witness ==
    /\ pc = "backtrack"
    /\ Cardinality(Vars) >= 3
    /\ call.active
    /\ CallsInProgress - 1 = Cardinality(Vars)

\* C14: the backtracking search never modifies the domain store: from the
\* first call of backtrack until solve() returns, every slot's domain keeps the
\* value it had at the end of the consistency pre-pass.
C14_SearchKeepsDomains ==
    [][(pc \in {"search", "backtrack"}) => (domains' = domains)]_vars

\* a branch of the search has failed, on domains that ac3 had pruned
C14_Witness ==
    /\ pc = "backtrack"
    /\ stack # <<>>
    /\ ret.kind = "None"
    /\ \E v \in Vars : domains[v] # LengthDomains[v] /\ domains[v] # {}

\* f binds every slot to a word of its length, with equal letters at every overlap.
MeetsLengthAndOverlap(f) ==
    /\ \A v \in Vars : Len(f[v]) = v.length
    /\ \A x, y \in Vars :
          (x # y /\ Overlap(x, y) # None) =>
              f[x][Overlap(x, y)[1] + 1] = f[y][Overlap(x, y)[2] + 1]

\* C15: propagation is sound: for every complete assignment that meets the
\* length and overlap constraints, each slot's word in it is still in the
\* slot's domain after enforce_node_consistency and after every step of ac3.
C15_PropagationSound ==
    pc # "node" =>
        \A f \in [Vars -> words] :
            MeetsLengthAndOverlap(f) => \A v \in Vars : f[v] \in domains[v]

\* ac3 has just removed words on a grid of three slots or more whose length
\* and overlap constraints can be met
C15_Witness ==
    /\ pc = "ac3loop"
    /\ revised
    /\ Cardinality(Vars) >= 3
    /\ \E f \in [Vars -> words] : MeetsLengthAndOverlap(f)

\* C16: revise(x, y) changes at most the domain of x: the domain of y and of
\* every other slot is unchanged by the call, and x's new domain is a subset of
\* its previous domain.
C16_ReviseChangesOnlyX ==
    [][pc = "ac3" =>
        LET x == arc'[1]
        IN  /\ \A v \in Vars \ {x} : domains'[v] = domains[v]
            /\ domains'[x] \subseteq domains[x]]_vars

\* revise has removed from x's domain a word that another slot still holds
C16_Witness ==
    /\ pc = "ac3"
    /\ arc # NoArc
    /\ revised
    /\ Cardinality(Vars) >= 3
    /\ \E v \in Vars \ {arc[1]} : (domains[v] \cap LengthDomains[arc[1]]) \ domains[arc[1]] # {}

====
